---- MODULE Spec2Model ----
(***************************************************************************)
(* Model of the gamefolio frame loop (src/src/PortfolioGame.tsx): the tile *)
(* collision resolver, the zone trigger, the modal state, the persisted    *)
(* snapshot and the requestAnimationFrame loop effect.                     *)
(*                                                                         *)
(* Numbers.  Coordinates are JavaScript numbers (fractions of a pixel).    *)
(* They are modelled in fixed point: one unit is 1/SUB of a pixel, so a    *)
(* rectangle can sit between two pixel columns.  Times are in whole        *)
(* milliseconds, velocities in pixels per second.                          *)
(***************************************************************************)
EXTENDS Integers, Sequences, FiniteSets, TLC

\* ---------------------------------------------------------------- bounds
SUB == 2            \* fixed-point units per pixel
TickMs == 34        \* milliseconds of real time that pass in one Tick
MaxFrames == 2      \* animation frames explored in one behaviour
MaxInst == 3        \* loop-effect instances that can hold frame callbacks

\* ------------------------------------------------------ program constants
WORLD == [width |-> 2000, height |-> 1200]
PLAYER == [speed |-> 320, size |-> 28]
TILE == 40
COLS == WORLD.width \div TILE
ROWS == WORLD.height \div TILE
DT_CAP == 33        \* Math.min(0.033, ...) in milliseconds
NULL == "null"      \* JavaScript null

ZONES ==
  << [id |-> "about",    rect |-> [x |-> 180,  y |-> 160, w |-> 260, h |-> 180]],
     [id |-> "projects", rect |-> [x |-> 1500, y |-> 160, w |-> 320, h |-> 220]],
     [id |-> "music",    rect |-> [x |-> 180,  y |-> 800, w |-> 300, h |-> 200]],
     [id |-> "contact",  rect |-> [x |-> 1500, y |-> 820, w |-> 280, h |-> 180]] >>

ZoneIds == {ZONES[i].id : i \in 1..Len(ZONES)}

\* ------------------------------------------------------------- arithmetic
Min(a, b) == IF a < b THEN a ELSE b
Max(a, b) == IF a > b THEN a ELSE b
Abs(a) == IF a < 0 THEN -a ELSE a
Sgn(a) == IF a < 0 THEN -1 ELSE IF a > 0 THEN 1 ELSE 0

\* a product  v (px/s) * dt (ms)  as a displacement in units, cut towards 0
Displace(v, dt) == Sgn(v) * ((Abs(v) * dt * SUB) \div 1000)

\* a length in pixels as units
U(px) == px * SUB

\* ---------------------------------------------------------------- tilemap
xL == 900 \div TILE
xR == 1150 \div TILE
yTop == 400 \div TILE
yBot == 600 \div TILE

\* MAP_ROWS[r].charAt(c) as lines 141-180 build it: the border walls, the two
\* horizontal bars and the two vertical posts of the plaza
MAP_ROWS(r, c) ==
  IF \/ r = 0 \/ r = ROWS - 1
     \/ c = 0 \/ c = COLS - 1
     \/ (r \in {yTop, yBot} /\ c >= xL /\ c <= xR)
     \/ (r >= yTop /\ r <= yBot /\ c \in {xL, 1150 \div TILE})
  THEN "#" ELSE "."

intersects(a, b) ==
  /\ a.x < b.x + b.w
  /\ a.x + a.w > b.x
  /\ a.y < b.y + b.h
  /\ a.y + a.h > b.y

\* a lookup that takes every tile outside the grid for a wall
isSolidOutside(tx, ty) ==
  \/ ~(ty >= 0 /\ ty < ROWS /\ tx >= 0 /\ tx < COLS)
  \/ MAP_ROWS(ty, tx) = "#"

isSolid(tx, ty) ==
  /\ ty >= 0 /\ ty < ROWS /\ tx >= 0 /\ tx < COLS
  /\ MAP_ROWS(ty, tx) = "#"

\* Math.floor(x / TILE) on units: \div rounds towards minus infinity
rectToTileRange(x, y, w, h) ==
  [left   |-> x \div U(TILE),
   right  |-> (x + w - U(1)) \div U(TILE),
   top    |-> y \div U(TILE),
   bottom |-> (y + h - U(1)) \div U(TILE)]

clampToWorldX(x, w) == Max(0, Min(U(WORLD.width) - w, x))
clampToWorldY(y, h) == Max(0, Min(U(WORLD.height) - h, y))

\* X step of moveAndCollide: the rectangle after lines 239-259
moveX(r, vx, dt) ==
  LET x1  == clampToWorldX(r.x + Displace(vx, dt), r.w)
      rng == rectToTileRange(x1, r.y, r.w, r.h)
  IN  IF vx > 0 /\ \E ty \in rng.top..rng.bottom : isSolid(rng.right, ty)
        THEN [r EXCEPT !.x = rng.right * U(TILE) - r.w]
      ELSE IF vx < 0 /\ \E ty \in rng.top..rng.bottom : isSolid(rng.left, ty)
        THEN [r EXCEPT !.x = (rng.left + 1) * U(TILE)]
      ELSE [r EXCEPT !.x = x1]

\* Y step of moveAndCollide: the rectangle after lines 262-280
moveY(r, vy, dt) ==
  LET y1  == clampToWorldY(r.y + Displace(vy, dt), r.h)
      rng == rectToTileRange(r.x, y1, r.w, r.h)
  IN  IF vy > 0 /\ \E tx \in rng.left..rng.right : isSolid(tx, rng.bottom)
        THEN [r EXCEPT !.y = rng.bottom * U(TILE) - r.h]
      ELSE IF vy < 0 /\ \E tx \in rng.left..rng.right : isSolid(tx, rng.top)
        THEN [r EXCEPT !.y = (rng.top + 1) * U(TILE)]
      ELSE [r EXCEPT !.y = y1]

moveAndCollide(r, vx, vy, dt) == moveY(moveX(r, vx, dt), vy, dt)

\* a clamp that forgets the lower bound
StepClampUpperOnly(r) ==
  [r EXCEPT !.x = Min(U(WORLD.width) - r.w, r.x),
            !.y = Min(U(WORLD.height) - r.h, r.y)]

\* lines 492-493 of step: the clamp to the world after moveAndCollide
StepClamp(r) ==
  [r EXCEPT !.x = Max(0, Min(U(WORLD.width) - r.w, r.x)),
            !.y = Max(0, Min(U(WORLD.height) - r.h, r.y))]

\* the rectangle a frame commits: lines 486-493 of step
resolve(r, vx, vy, dt) == StepClamp(moveAndCollide(r, vx, vy, dt))

\* ------------------------------------------------------------------ zones
ZoneRect(i) ==
  [x |-> U(ZONES[i].rect.x), y |-> U(ZONES[i].rect.y),
   w |-> U(ZONES[i].rect.w), h |-> U(ZONES[i].rect.h)]

\* ZONES.find(z => intersects(r, z.rect)): the first zone in list order
ZoneAt(r) ==
  LET hits == {i \in 1..Len(ZONES) : intersects(r, ZoneRect(i))}
  IN  IF hits = {} THEN NULL
      ELSE ZONES[CHOOSE i \in hits : \A j \in hits : i <= j].id

\* a trigger with the negation lost: opens only while already inside
ZoneEnterInside(nowIn, wasIn) == nowIn # NULL /\ wasIn # NULL

\* the edge trigger of line 741:  nowIn && !wasIn
ZoneEnter(nowIn, wasIn) == nowIn # NULL /\ wasIn = NULL

\* ------------------------------------------------------------------ input
MoveKeys == {"w", "a", "s", "d", "shift"}
Keys == MoveKeys \cup {"escape", "enter"}

\* the keys the visitor uses
Typed == {"a", "d", "shift", "escape", "enter"}

\* Math.hypot, rounded down; exact on an axis
Hypot(a, b) ==
  IF b = 0 THEN Abs(a)
  ELSE IF a = 0 THEN Abs(b)
  ELSE CHOOSE m \in 0..(Abs(a) + Abs(b)) :
         m * m <= a * a + b * b /\ a * a + b * b < (m + 1) * (m + 1)

\* the touch joystick, touchRef.current (line 299): the pointer that owns
\* it (NULL when none does), where it went down, and its offset from there
TouchNone == [id |-> NULL, startX |-> 0, startY |-> 0, dx |-> 0, dy |-> 0]
JOY_R == 34
JOY_DEAD == 8

\* a pointerdown that takes the joystick whoever owns it
onPointerDownTakeover(t, p, x, y) ==
  [id |-> p, startX |-> x, startY |-> y, dx |-> 0, dy |-> 0]

\* lines 800-808: pointer p goes down at (x, y) of the canvas
onPointerDown(t, p, x, y) ==
  IF t.id = NULL
    THEN [id |-> p, startX |-> x, startY |-> y, dx |-> 0, dy |-> 0]
    ELSE t

\* lines 809-822: pointer p moves to (x, y); the offset is cut to the radius R
onPointerMove(t, p, x, y) ==
  LET dx == x - t.startX
      dy == y - t.startY
      m  == Hypot(dx, dy)
  IN  IF t.id # p THEN t
      ELSE IF m > JOY_R
        THEN [t EXCEPT !.dx = Sgn(dx) * ((Abs(dx) * JOY_R) \div m),
                       !.dy = Sgn(dy) * ((Abs(dy) * JOY_R) \div m)]
        ELSE [t EXCEPT !.dx = dx, !.dy = dy]

\* lines 823-827: pointer p goes up
onPointerUp(t, p) == IF t.id = p THEN TouchNone ELSE t

\* lines 438-454: the intent in thousandths, the keys and then the joystick
Intent(ks, t) ==
  LET kx  == (IF {"d", "arrowright"} \cap ks # {} THEN 1000 ELSE 0)
               - (IF {"a", "arrowleft"} \cap ks # {} THEN 1000 ELSE 0)
      ky  == (IF {"s", "arrowdown"} \cap ks # {} THEN 1000 ELSE 0)
               - (IF {"w", "arrowup"} \cap ks # {} THEN 1000 ELSE 0)
      mag == Hypot(t.dx, t.dy)
  IN  IF t.id # NULL /\ mag > JOY_DEAD
        THEN [ix |-> kx + Sgn(t.dx) * ((Abs(t.dx) * 1000) \div mag),
              iy |-> ky + Sgn(t.dy) * ((Abs(t.dy) * 1000) \div mag)]
        ELSE [ix |-> kx, iy |-> ky]

\* lines 466-469
MoveSpeed(ks, stam) ==
  IF "shift" \in ks /\ stam > 50 THEN (PLAYER.speed * 18) \div 10 ELSE PLAYER.speed

\* an intent taken as it is, without the division by its length
AxisUnnormalised(i, other, speed) == (i * speed) \div 1000

\* Math.hypot, rounded up
HypotUp(a, b) ==
  IF Hypot(a, b) * Hypot(a, b) = a * a + b * b THEN Hypot(a, b) ELSE Hypot(a, b) + 1

\* lines 472-476: (i / hypot(ix, iy)) * moveSpeed, cut to whole px/s.  The
\* length is rounded up, so that the cut never gives more than the quotient.
Axis(i, other, speed) ==
  IF i = 0 THEN 0
  ELSE Sgn(i) * ((Abs(i) * speed) \div HypotUp(i, other))

\* drain and regen without Math.max and Math.min
staminaStepUnclamped(ks, t, stam, dt, drain) ==
  LET in == Intent(ks, t)
  IN  IF "shift" \in ks /\ (in.ix # 0 \/ in.iy # 0)
        THEN stam - (drain * dt) \div 1000
      ELSE stam + (350 * dt) \div 1000

\* lines 478-484: stamina in thousandths after a step of dt ms, with the
\* build's drain (thousandths per second) and regen 0.35 per second
staminaStep(ks, t, stam, dt, drain) ==
  LET in == Intent(ks, t)
  IN  IF "shift" \in ks /\ (in.ix # 0 \/ in.iy # 0)
        THEN Max(0, stam - (drain * dt) \div 1000)
      ELSE Min(1000, stam + (350 * dt) \div 1000)

\* line 479: the drain of src/src/PortfolioGame.tsx is 0
NextStamina(ks, t, stam, dt) == staminaStep(ks, t, stam, dt, 0)

\* a step that takes the whole time since the frame before
capDtMissing(ms) == ms

\* line 435: dt = Math.min(0.033, (now - last) / 1000), in milliseconds
capDt(ms) == Min(DT_CAP, ms)

\* --------------------------------------------------------------- snapshot
\* JSON.stringify({player: {x, y}, activeZone}) of lines 523-526
Stringify(next, az) == [player |-> [x |-> next.x, y |-> next.y], activeZone |-> az]

PlayerAt(x, y) == [x |-> x, y |-> y, w |-> U(PLAYER.size), h |-> U(PLAYER.size)]
Spawn == PlayerAt(U(500), U(500))

\* lines 334-346: applyFromHash
applyFromHash(h) == IF h \in ZoneIds THEN h ELSE NULL

\* lines 359-373: the state after the load effect, from the mounted defaults
NoSave == [absent |-> TRUE]     \* localStorage.getItem gives null

LoadSaved(raw, p, az) ==
  IF raw = NoSave THEN [player |-> p, activeZone |-> az]
  ELSE [player |-> [p EXCEPT !.x = raw.player.x, !.y = raw.player.y],
        activeZone |-> IF raw.activeZone # NULL /\ raw.activeZone \in ZoneIds
                         THEN raw.activeZone ELSE az]

\* ------------------------------------------------------------------ state
VARIABLES
  player,      \* useState player: rectangle in units
  keys,        \* useState keys: the set of keys whose flag is true
  activeZone,  \* useState activeZone: a zone id or NULL
  overlapRef,  \* overlapRef.current
  touch,       \* touchRef.current
  stamina,     \* useState stamina, in thousandths
  hash,        \* window.location.hash without '#'
  storage,     \* localStorage["pf-save"], parsed; NoSave when absent
  hidden,      \* document.hidden
  loops,       \* the loop effect's instances: the closure of each run
  cur,         \* the instance whose cleanup is still to run (the mounted one)
  rafQueue,    \* the browser's list of animation frame callbacks, in order
  frames,      \* animation frames run so far
  sinceVis,    \* ms since the page became visible, -1 once a frame has run
  lastEvent,   \* observation: the event that led to this state
  walk,        \* observation: where the visitor is after closing a modal
  mv,          \* a single call of the resolver (specification SpecMove)
  zoom,        \* useState camera: camera.zoom, in thousandths
  build,       \* which camera the build has: "follow" or "fit"
  viewport,    \* useState viewport: the canvas size in pixels
  storageFails,\* which accesses of localStorage throw: "none", "write", "all"
  audio,       \* the audio players and audioManager (specification SpecAudio)
  cm,          \* a single camera computation (specification SpecCam)
  ld,          \* a single run of the load effect (specification SpecLoad)
  vl,          \* a single velocity computation (specification SpecVel)
  sp,          \* the stamina a sequence of steps leaves (specification SpecStam)
  boot         \* the mount: what its effects queued (specification SpecBoot)

\* the window and the build do not change while the page is open
env == << build, viewport, storageFails >>

\* what the game's events leave alone
side == << audio, cm, ld, vl >>

\* state of the specifications that follow a single part of the page
more == << sp, boot >>

vars == << player, keys, activeZone, overlapRef, touch, stamina, hash, storage,
           hidden, loops, cur, rafQueue, frames, sinceVis, lastEvent, walk, mv,
           zoom, env, more, side >>

InstIds == 0..(MaxInst - 1)
AgeCap == DT_CAP + 1           \* elapsed times saturate above the dt cap

\* the values a run of the loop effect closes over (line 421), and its `last`
Closure(p, ks, az, stam, zm) ==
  [player |-> p, keys |-> ks, activeZone |-> az, stamina |-> stam, zoom |-> zm,
   age |-> 0]

ZOOM_RESET == 750              \* camera.zoom 0.75, in thousandths

DeadLoop == Closure(Spawn, {}, NULL, 1000, ZOOM_RESET)

Live(q, c) == {c} \cup {q[i].inst : i \in 1..Len(q)}

\* requestAnimationFrame(step) by instance i: `raf` now names the new callback
Request(q, i) ==
  Append([k \in 1..Len(q) |->
            IF q[k].inst = i THEN [q[k] EXCEPT !.latest = FALSE] ELSE q[k]],
         [inst |-> i, latest |-> TRUE])

\* cancelAnimationFrame(raf) by instance i
Cancel(q, i) == SelectSeq(q, LAMBDA cb : ~(cb.inst = i /\ cb.latest))

\* the observation left by an event no property looks at
Quiet == [ev |-> "other"]

\* --------------------------------------------------------- the loop effect
\* A re-run of the loop effect (lines 421-432, 748-755) after a render in
\* which player, camera or keys is a new object: the cleanup of instance c
\* cancels its `raf`, the new run closes over the rendered state, takes
\* last = performance.now() and requests a frame.
FreeIds(q, c) == InstIds \ {Cancel(q, c)[i].inst : i \in 1..Len(Cancel(q, c))}

Rerun(q, ls, c, closure) ==
  LET q1   == Cancel(q, c)
      used == {q1[i].inst : i \in 1..Len(q1)}
      new  == CHOOSE i \in InstIds \ used : \A j \in InstIds \ used : i <= j
  IN  [loops |-> [i \in InstIds |->
                    IF i = new THEN closure
                    ELSE IF i \in used THEN ls[i] ELSE DeadLoop],
       cur   |-> new,
       queue |-> Request(q1, new)]

\* localStorage.setItem("pf-save", JSON.stringify(...)) of lines 523-526: it
\* throws when the storage cannot be written
SaveSnapshot(st, next, az, fails) ==
  IF fails THEN [storage |-> st, thrown |-> TRUE]
  ELSE [storage |-> Stringify(next, az), thrown |-> FALSE]

\* a save without the try block: the exception leaves step
CatchSaveMissing(res) == res

\* try { ... } catch { } of lines 522-527
CatchSave(res) == [res EXCEPT !.thrown = FALSE]

\* the zoom of the camera step commits: camera.zoom of the closure (line 518)
\* in the soft-follow build, the fit-to-world scale (part_001, lines 551-557)
\* in the other
FitScale(vp) ==
  Min((vp.width * 1000) \div WORLD.width, (vp.height * 1000) \div WORLD.height)

CommitZoom(b, vp, zm) == IF b = "fit" THEN FitScale(vp) ELSE zm

\* One run of step (lines 434-746) by a callback of instance i.  acc carries
\* what the callbacks of one animation frame share: the instances, the next
\* frame's callback list, localStorage, overlapRef, and React's batch of
\* state updates (player, zone, stam, zoom), rendered after the frame.
step(i, acc) ==
  LET c     == acc.loops[i]
      dt    == capDt(c.age)
      in    == Intent(c.keys, touch)
      speed == MoveSpeed(c.keys, c.stamina)
      vx    == Axis(in.ix, in.iy, speed)
      vy    == Axis(in.iy, in.ix, speed)
      s     == NextStamina(c.keys, touch, c.stamina, dt)
      next  == resolve(c.player, vx, vy, dt)
      nowIn == ZoneAt(next)
      wasIn == ZoneAt(c.player)
      open  == ZoneEnter(nowIn, wasIn)
      sv    == CatchSave(SaveSnapshot(acc.storage, next, c.activeZone, acc.fails))
  IN  IF sv.thrown
        THEN [acc EXCEPT !.loops = [acc.loops EXCEPT ![i].age = 0],
                         !.stam = IF s # c.stamina THEN s ELSE acc.stam,
                         !.dts = Append(acc.dts, dt)]
        ELSE [loops   |-> [acc.loops EXCEPT ![i].age = 0],
              queue   |-> Request(acc.queue, i),
              storage |-> sv.storage,
              overlap |-> nowIn,
              player  |-> next,
              zone    |-> IF open THEN nowIn ELSE acc.zone,
              stam    |-> IF s # c.stamina THEN s ELSE acc.stam,
              zoom    |-> CommitZoom(build, viewport, c.zoom),
              opens   |-> IF open THEN Append(acc.opens, nowIn) ELSE acc.opens,
              dts     |-> Append(acc.dts, dt),
              fails   |-> acc.fails,
              commits |-> acc.commits + 1]

RECURSIVE RunCallbacks(_, _)
RunCallbacks(q, acc) ==
  IF q = << >> THEN acc ELSE RunCallbacks(Tail(q), step(Head(q).inst, acc))

\* what the visitor has done since closing a modal by hand while standing
\* in its zone: "closed" (still in the zone), "out" (walked out), "back"
\* (walked in again in the frame just run)
WalkAfterFrame(w, zoneNow) ==
  IF w = "closed" /\ zoneNow = NULL THEN "out"
  ELSE IF w = "closed" THEN "closed"
  ELSE IF w = "out" /\ zoneNow # NULL THEN "back"
  ELSE IF w = "out" THEN "out"
  ELSE "idle"

WalkAfterClose(p) == IF ZoneAt(p) # NULL THEN "closed" ELSE "idle"

WalkOther(w) == IF w = "back" THEN "idle" ELSE w

\* what the callbacks of a frame start from; fails: localStorage throws
FrameAcc(fails) ==
  [loops |-> loops, queue |-> << >>, storage |-> storage,
   overlap |-> overlapRef, player |-> player, zone |-> activeZone,
   stam |-> stamina, zoom |-> zoom, opens |-> << >>, dts |-> << >>,
   fails |-> fails, commits |-> 0]

\* the render after a frame: the loop effect is re-run when a step has
\* committed (setPlayer installs a new object), else it stays as it is
AfterFrame(r) ==
  IF r.commits > 0
    THEN Rerun(r.queue, r.loops, cur,
               Closure(r.player, keys, r.zone, r.stam, r.zoom))
    ELSE [loops |-> r.loops, cur |-> cur, queue |-> r.queue]

\* An animation frame: the browser runs the callbacks of its list in order;
\* React then renders the batched updates and re-runs the loop effect,
\* because setPlayer(next) always installs a new object.
Frame ==
  /\ ~hidden
  /\ rafQueue # << >>
  /\ frames < MaxFrames
  /\ \E r \in {RunCallbacks(rafQueue, FrameAcc(storageFails # "none"))} :
       /\ FreeIds(r.queue, cur) # {}
       /\ \E e \in {AfterFrame(r)} :
            /\ loops' = e.loops
            /\ cur' = e.cur
            /\ rafQueue' = e.queue
       /\ player' = r.player
       /\ zoom' = r.zoom
       /\ activeZone' = r.zone
       /\ stamina' = r.stam
       /\ storage' = r.storage
       /\ overlapRef' = r.overlap
       /\ lastEvent' = [ev |-> "frame", steps |-> Len(r.dts), opens |-> r.opens,
                        dt1 |-> IF sinceVis >= 0 THEN Head(r.dts) ELSE 0,
                        visAge |-> sinceVis, wasZone |-> ZoneAt(player)]
       /\ walk' = WalkAfterFrame(walk, ZoneAt(r.player))
  /\ frames' = frames + 1
  /\ sinceVis' = -1
  /\ UNCHANGED << keys, touch, hash, hidden, mv, env, more, side >>

\* Real time passes: every `last` grows older.
Older(a) == Min(AgeCap, a + TickMs)

Tick ==
  /\ loops' = [i \in InstIds |->
                 IF i \in Live(rafQueue, cur)
                   THEN [loops[i] EXCEPT !.age = Older(loops[i].age)]
                   ELSE loops[i]]
  /\ sinceVis' = IF sinceVis < 0 THEN sinceVis ELSE Older(sinceVis)
  /\ lastEvent' = Quiet
  /\ walk' = WalkOther(walk)
  /\ UNCHANGED << player, keys, activeZone, overlapRef, touch, stamina, hash, storage,
                  hidden, cur, rafQueue, frames, mv, zoom, env, more, side >>

\* visibilitychange: onVis of the mounted instance (lines 425-432)
onVis ==
  /\ hidden' = ~hidden
  /\ IF hidden'
       THEN /\ rafQueue' = Cancel(rafQueue, cur)
            /\ loops' = loops
            /\ sinceVis' = -1
       ELSE /\ rafQueue' = Request(rafQueue, cur)
            /\ loops' = [loops EXCEPT ![cur].age = 0]
            /\ sinceVis' = 0
  /\ lastEvent' = Quiet
  /\ walk' = WalkOther(walk)
  /\ UNCHANGED << player, keys, activeZone, overlapRef, touch, stamina, hash, storage,
                  cur, frames, mv, zoom, env, more, side >>

\* ---------------------------------------------------------------- keyboard
\* Key and pointer events reach the document only while it is shown.

\* line 383-385: Escape
onEscape(az) == NULL

\* an Enter handler without the test of line 388
onEnterUnguarded(az, ov) == ov

\* lines 386-389: Enter opens the zone overlapRef names, if any
onEnter(az, ov) == IF ov # NULL THEN ov ELSE az

\* keydown (lines 377-405).  A movement key installs a new keys object, which
\* re-runs the loop effect; Escape and Enter only set activeZone.  seen is
\* what lastEvent records of the key.
keydown(k, seen) ==
  /\ ~hidden
  /\ IF k \in MoveKeys
       THEN /\ keys' = keys \cup {k}
            /\ FreeIds(rafQueue, cur) # {}
            /\ \E e \in {Rerun(rafQueue, loops, cur,
                               Closure(player, keys', activeZone, stamina, zoom))} :
                 /\ loops' = e.loops
                 /\ cur' = e.cur
                 /\ rafQueue' = e.queue
            /\ UNCHANGED activeZone
            /\ walk' = WalkOther(walk)
       ELSE /\ activeZone' = IF k = "escape" THEN onEscape(activeZone)
                             ELSE onEnter(activeZone, overlapRef)
            /\ walk' = IF k = "escape" /\ activeZone # NULL THEN WalkAfterClose(player)
                       ELSE IF k = "enter" /\ overlapRef # NULL THEN "idle"
                       ELSE WalkOther(walk)
            /\ UNCHANGED << keys, loops, cur, rafQueue >>
  /\ lastEvent' = seen
  /\ UNCHANGED << player, overlapRef, touch, stamina, hash, storage, hidden,
                  frames, sinceVis, mv, zoom, env, more, side >>

down(k) == keydown(k, IF k = "escape" THEN [ev |-> "escape"] ELSE Quiet)

\* keyup (line 406): every key installs a new keys object with its flag false
up(k) ==
  /\ ~hidden
  /\ k \in MoveKeys => k \in keys
  /\ keys' = keys \ {k}
  /\ FreeIds(rafQueue, cur) # {}
  /\ \E e \in {Rerun(rafQueue, loops, cur,
                     Closure(player, keys', activeZone, stamina, zoom))} :
       /\ loops' = e.loops
       /\ cur' = e.cur
       /\ rafQueue' = e.queue
  /\ lastEvent' = Quiet
  /\ walk' = WalkOther(walk)
  /\ UNCHANGED << player, activeZone, overlapRef, touch, stamina, hash, storage,
                  hidden, frames, sinceVis, mv, zoom, env, more, side >>

\* ------------------------------------------------------------------- modal
\* lines 353-356: closeZone, with history.replaceState(null, "", " ")
closeZone(az, h) == [activeZone |-> NULL, hash |-> ""]

\* line 877: the close button's onClick
closeButton(az) == NULL

\* line 868: a click on the backdrop of the open modal
BackdropClick ==
  /\ ~hidden
  /\ activeZone \in ZoneIds
  /\ activeZone' = closeZone(activeZone, hash).activeZone
  /\ hash' = closeZone(activeZone, hash).hash
  /\ lastEvent' = [ev |-> "backdrop"]
  /\ walk' = WalkAfterClose(player)
  /\ UNCHANGED << player, keys, overlapRef, touch, stamina, storage, hidden,
                  loops, cur, rafQueue, frames, sinceVis, mv, zoom, env, more, side >>

\* lines 876-882: a click on the close button of the open modal
CloseClick ==
  /\ ~hidden
  /\ activeZone \in ZoneIds
  /\ activeZone' = closeButton(activeZone)
  /\ lastEvent' = [ev |-> "closebutton"]
  /\ walk' = WalkAfterClose(player)
  /\ UNCHANGED << player, keys, overlapRef, touch, stamina, hash, storage,
                  hidden, loops, cur, rafQueue, frames, sinceVis, mv, zoom, env, more, side >>

\* ---------------------------------------------------------------- joystick
\* The canvas receives a pointerdown only where the modal's backdrop does not
\* cover it; setPointerCapture (line 805) keeps the later events of that
\* pointer on the canvas.

\* the visitor's finger, where it goes down on the canvas and where it is
\* dragged, relative to that point (px)
Finger == "p1"
PointerStart == [x |-> 100, y |-> 100]
PointerOffsets == {[dx |-> -60, dy |-> 0]}

\* lines 800-808
PointerDown ==
  /\ ~hidden
  /\ activeZone = NULL
  /\ touch.id = NULL
  /\ touch' = onPointerDown(touch, Finger, PointerStart.x, PointerStart.y)
  /\ lastEvent' = Quiet
  /\ walk' = WalkOther(walk)
  /\ UNCHANGED << player, keys, activeZone, overlapRef, stamina, hash, storage,
                  hidden, loops, cur, rafQueue, frames, sinceVis, mv, zoom, env, more, side >>

\* lines 809-822
PointerMove ==
  /\ ~hidden
  /\ touch.id = Finger
  /\ \E o \in PointerOffsets :
       touch' = onPointerMove(touch, Finger, PointerStart.x + o.dx, PointerStart.y + o.dy)
  /\ touch' # touch
  /\ lastEvent' = Quiet
  /\ walk' = WalkOther(walk)
  /\ UNCHANGED << player, keys, activeZone, overlapRef, stamina, hash, storage,
                  hidden, loops, cur, rafQueue, frames, sinceVis, mv, zoom, env, more, side >>

\* lines 823-827
PointerUp ==
  /\ ~hidden
  /\ touch.id = Finger
  /\ touch' = onPointerUp(touch, Finger)
  /\ lastEvent' = Quiet
  /\ walk' = WalkOther(walk)
  /\ UNCHANGED << player, keys, activeZone, overlapRef, stamina, hash, storage,
                  hidden, loops, cur, rafQueue, frames, sinceVis, mv, zoom, env, more, side >>

\* ------------------------------------------------------------------- mount
\* The state once the mount effects have run (lines 334-373, 421-432): the
\* hash effect, then the load effect; the loop effect's last run closes over
\* the restored state and holds the only frame callback.
Mounted(raw, h) == LoadSaved(raw, Spawn, applyFromHash(h))

\* localStorage.getItem("pf-save") of line 361: it throws when the storage
\* cannot be read, and the catch of line 372 leaves the state as it was
getItem(raw, fails) ==
  IF fails THEN [thrown |-> TRUE, raw |-> NoSave] ELSE [thrown |-> FALSE, raw |-> raw]

MountedFrom(raw, h, fails) ==
  IF getItem(raw, fails).thrown
    THEN [player |-> Spawn, activeZone |-> applyFromHash(h)]
    ELSE Mounted(getItem(raw, fails).raw, h)

MountLoops(m) ==
  [i \in InstIds |->
     IF i = 0 THEN Closure(m.player, {}, m.activeZone, 1000, ZOOM_RESET)
     ELSE DeadLoop]

\* the canvas of a large window: MAX_VIEW of line 109
MAX_VIEW == [width |-> 960, height |-> 540]

\* the players of the music zone: none is mounted, nothing plays
AudioIdle == [pc |-> "idle"]
CmIdle == [pc |-> "idle"]
LdIdle == [pc |-> "idle"]
VlIdle == [pc |-> "idle"]

\* positions (pixels) and modal states an earlier session has written
SavedStates ==
  { Stringify(PlayerAt(U(842), U(500)), NULL),      \* west of the plaza wall
    Stringify(PlayerAt(U(445), U(300)), NULL),      \* 5 px east of "about"
    Stringify(PlayerAt(U(436), U(300)), "about") }  \* in the zone, modal open

MvIdle == [pc |-> "idle"]

\* a page load with raw in localStorage, shown (hid = FALSE) or in the
\* background (hid = TRUE)
BootAt(raw, hid, h, b, vp, fails) ==
  /\ storage = raw
  /\ hash = h
  /\ hidden = hid
  /\ build = b
  /\ viewport = vp
  /\ storageFails = fails
  /\ zoom = ZOOM_RESET
  /\ player = MountedFrom(raw, h, fails = "all").player
  /\ activeZone = MountedFrom(raw, h, fails = "all").activeZone
  /\ keys = {}
  /\ overlapRef = NULL
  /\ touch = TouchNone
  /\ stamina = 1000
  /\ loops = MountLoops(MountedFrom(raw, h, fails = "all"))
  /\ cur = 0
  /\ rafQueue = << [inst |-> 0, latest |-> TRUE] >>
  /\ frames = 0
  /\ sinceVis = -1
  /\ lastEvent = [ev |-> "load"]
  /\ walk = "idle"

\* the soft-follow build in a large window, no fragment in the URL, a
\* working localStorage
Boot(raw, hid) == BootAt(raw, hid, "", "follow", MAX_VIEW, "none")

SideIdle == audio = AudioIdle /\ cm = CmIdle /\ ld = LdIdle /\ vl = VlIdle

SpIdle == [pc |-> "idle"]

\* the first render after the mount is done
Rendered == [pc |-> "rendered"]

MoreIdle == sp = SpIdle /\ boot = Rendered

Init ==
  /\ \E raw \in SavedStates \cup {NoSave}, hid \in BOOLEAN : Boot(raw, hid)
  /\ mv = MvIdle
  /\ SideIdle /\ MoreIdle

\* The visitor reloads the page on screen: every callback and listener
\* is gone, the component mounts from localStorage and the URL.
Reload ==
  /\ ~hidden
  /\ hidden' = FALSE
  /\ player' = MountedFrom(storage, hash, storageFails = "all").player
  /\ activeZone' = MountedFrom(storage, hash, storageFails = "all").activeZone
  /\ keys' = {}
  /\ overlapRef' = NULL
  /\ touch' = TouchNone
  /\ stamina' = 1000
  /\ loops' = MountLoops(MountedFrom(storage, hash, storageFails = "all"))
  /\ cur' = 0
  /\ rafQueue' = << [inst |-> 0, latest |-> TRUE] >>
  /\ sinceVis' = -1
  /\ lastEvent' = [ev |-> "reload",
                   afterFrame |-> lastEvent.ev = "frame",
                   before |-> Stringify(player, activeZone)]
  /\ walk' = "idle"
  /\ zoom' = ZOOM_RESET
  /\ UNCHANGED << hash, storage, frames, mv, env, more, side >>

Next ==
  \/ Frame
  \/ Tick
  \/ onVis
  \/ \E k \in Typed : down(k)
  \/ \E k \in Typed : up(k)
  \/ BackdropClick
  \/ CloseClick
  \/ PointerDown
  \/ PointerMove
  \/ PointerUp
  \/ Reload

Spec == Init /\ [][Next]_vars

\* ------------------------------------------------- the resolver on its own
\* SpecMove calls the resolver once on a rectangle, a velocity and a dt drawn
\* from bounded sets: raw is what moveAndCollide leaves in `next`, out what
\* step commits after its clamp.
MoveXs == {U(0), U(5), U(800), U(842), U(845) + 1, U(1000), U(1950)}
MoveYs == {U(0), U(365), U(500) + 1, U(1165)}
MoveVxs == {-576, -320, 0, 100, 320, 576}
MoveVys == {-320, 0, 100, 576}
MoveDts == {0, 16, 33, 1000}

MoveCalls ==
  {[pc |-> "call", r |-> PlayerAt(x, y), vx |-> vx, vy |-> vy, dt |-> dt,
    raw |-> PlayerAt(x, y), out |-> PlayerAt(x, y)] :
     x \in MoveXs, y \in MoveYs, vx \in MoveVxs, vy \in MoveVys, dt \in MoveDts}

MoveApply ==
  /\ mv.pc = "call"
  /\ mv' = [mv EXCEPT !.pc = "ret",
                      !.raw = moveAndCollide(mv.r, mv.vx, mv.vy, mv.dt),
                      !.out = resolve(mv.r, mv.vx, mv.vy, mv.dt)]
  /\ UNCHANGED << player, keys, activeZone, overlapRef, touch, stamina, hash, storage,
                  hidden, loops, cur, rafQueue, frames, sinceVis, lastEvent,
                  walk, zoom, env, more, side >>

InitMove == Boot(NoSave, FALSE) /\ mv \in MoveCalls /\ SideIdle /\ MoreIdle

NextMove == MoveApply

SpecMove == InitMove /\ [][NextMove]_vars

\* ------------------------------------------- the resolver outside the grid
\* SpecEdge calls the resolver on rectangles above and below the grid, as the
\* load effect (lines 359-373) restores them from a snapshot without a range
\* check, moving along the wall rows and columns.
EdgeXs == {U(45), U(850), U(1925)}
EdgeYs == {U(-100), U(-28), U(1200), U(1300)}
EdgeVxs == {-576, -320, 320, 576}
EdgeVys == {-320, 0, 320}
EdgeDts == {16, 33}

EdgeCalls ==
  {[pc |-> "call", r |-> PlayerAt(x, y), vx |-> vx, vy |-> vy, dt |-> dt,
    raw |-> PlayerAt(x, y), out |-> PlayerAt(x, y)] :
     x \in EdgeXs, y \in EdgeYs, vx \in EdgeVxs, vy \in EdgeVys, dt \in EdgeDts}

InitEdge == Boot(NoSave, FALSE) /\ mv \in EdgeCalls /\ SideIdle /\ MoreIdle

SpecEdge == InitEdge /\ [][MoveApply]_vars

\* ------------------------------------------------- stamina over many frames
\* SpecStam applies the stamina lines of step frame after frame, for the
\* drain of each build (0 in src/src/PortfolioGame.tsx, 0.6 per second in
\* part_000), any keys held and any time between two frames.
StamDrains == {0, 600}
StamKeys == {{}, {"d"}, {"shift"}, {"shift", "d"}}
StamElapsed == {0, 16, 33, 50}

StamStart == {[pc |-> "run", stamina |-> 1000, drain |-> d] : d \in StamDrains}

StamFrame(ks, ms) ==
  /\ sp.pc = "run"
  /\ sp' = [sp EXCEPT !.stamina =
                        staminaStep(ks, TouchNone, sp.stamina, capDt(ms), sp.drain)]
  /\ UNCHANGED << player, keys, activeZone, overlapRef, touch, stamina, hash,
                  storage, hidden, loops, cur, rafQueue, frames, sinceVis,
                  lastEvent, walk, mv, zoom, env, boot, side >>

InitStam ==
  /\ Boot(NoSave, FALSE)
  /\ mv = MvIdle
  /\ SideIdle
  /\ boot = Rendered
  /\ sp \in StamStart

NextStam == \E ks \in StamKeys, ms \in StamElapsed : StamFrame(ks, ms)

SpecStam == InitStam /\ [][NextStam]_vars

\* --------------------------------------------------- the URL and the modal
\* fragments a URL of the page can carry: none, a zone's id, anything else
Hashes == {""} \cup ZoneIds \cup {"blog"}

\* lines 842-850: a click on a nav link sets the fragment; the browser fires
\* hashchange, which runs applyFromHash, only when the fragment changes.  The
\* open modal covers the links.
NavLink(z) ==
  /\ ~hidden
  /\ activeZone = NULL
  /\ hash' = z
  /\ activeZone' = IF hash # z THEN applyFromHash(z) ELSE activeZone
  /\ lastEvent' = IF hash # z THEN [ev |-> "hashchange"] ELSE Quiet
  /\ walk' = WalkOther(walk)
  /\ UNCHANGED << player, keys, overlapRef, touch, stamina, storage, hidden,
                  loops, cur, rafQueue, frames, sinceVis, mv, zoom, env, more, side >>

\* line 344: the visitor edits the fragment in the address bar or goes back
\* in the history; hashchange runs applyFromHash
HashChange(h) ==
  /\ ~hidden
  /\ h # hash
  /\ hash' = h
  /\ activeZone' = applyFromHash(h)
  /\ lastEvent' = [ev |-> "hashchange"]
  /\ walk' = WalkOther(walk)
  /\ UNCHANGED << player, keys, overlapRef, touch, stamina, storage, hidden,
                  loops, cur, rafQueue, frames, sinceVis, mv, zoom, env, more, side >>

\* snapshots and keys of the walk into "about" from its east side
HashSaved ==
  { NoSave,
    Stringify(PlayerAt(U(445), U(300)), NULL),
    Stringify(PlayerAt(U(436), U(300)), "about") }

HashTyped == {"a", "escape", "enter"}

InitHash ==
  /\ \E raw \in HashSaved, h \in Hashes :
       BootAt(raw, FALSE, h, "follow", MAX_VIEW, "none")
  /\ mv = MvIdle
  /\ SideIdle /\ MoreIdle

NextHash ==
  \/ Frame
  \/ Tick
  \/ \E k \in HashTyped : down(k)
  \/ \E k \in HashTyped : up(k)
  \/ BackdropClick
  \/ CloseClick
  \/ \E z \in ZoneIds : NavLink(z)
  \/ \E h \in Hashes : HashChange(h)

SpecHash == InitHash /\ [][NextHash]_vars

\* ------------------------------------------------- two pointers on the canvas
\* SpecJoy delivers the pointer events of two pointers to the canvas in any
\* order, and records each event and the joystick it found.
Pointers == {"p1", "p2"}
JoyXs == {60, 100, 140, 200}
JoyYs == {100, 150}

Pointer(kind, p) == [ev |-> "pointer", kind |-> kind, p |-> p, before |-> touch]

JoyRest ==
  UNCHANGED << player, keys, activeZone, overlapRef, stamina, hash, storage,
               hidden, loops, cur, rafQueue, frames, sinceVis, walk, mv, zoom,
               env, more, side >>

JoyDown(p, x, y) ==
  /\ touch' = onPointerDown(touch, p, x, y)
  /\ lastEvent' = Pointer("down", p)
  /\ JoyRest

JoyMove(p, x, y) ==
  /\ touch' = onPointerMove(touch, p, x, y)
  /\ lastEvent' = Pointer("move", p)
  /\ JoyRest

JoyUp(p) ==
  /\ touch' = onPointerUp(touch, p)
  /\ lastEvent' = Pointer("up", p)
  /\ JoyRest

\* the browser cancels a pointer (the touch turns into a scroll or a system
\* gesture takes it): the canvas (lines 800-827) has no handler for
\* pointercancel, so touchRef.current stays as it is
onPointerCancel(t, p) == t

JoyCancel(p) ==
  /\ touch' = onPointerCancel(touch, p)
  /\ lastEvent' = Pointer("cancel", p)
  /\ JoyRest

InitJoy == Boot(NoSave, FALSE) /\ mv = MvIdle /\ SideIdle /\ MoreIdle

NextJoy ==
  \/ \E p \in Pointers, x \in JoyXs, y \in JoyYs : JoyDown(p, x, y)
  \/ \E p \in Pointers, x \in JoyXs, y \in JoyYs : JoyMove(p, x, y)
  \/ \E p \in Pointers : JoyUp(p)
  \/ \E p \in Pointers : JoyCancel(p)

SpecJoy == InitJoy /\ [][NextJoy]_vars

\* ----------------------------------------------------------- audio players
\* SpecAudio mounts the players of the music zone (one useAudio each, with
\* its own audio element and AudioContext) and runs their calls and events in
\* any order.  audio.current is audioManager's `current`; audio.playing the
\* elements that are not paused; audio.pc[h] where the play() call of player h
\* stands: "idle", "resume" (awaiting ctx.resume(), useAudio.ts line 155) or
\* "start" (awaiting el.play(), line 158); audio.mounted the players whose
\* effect has not been cleaned up.  An unmounted element has no source and
\* never plays.
Players == {"a", "b"}

AudioMounted ==
  [pc |-> [h \in Players |-> "idle"], current |-> NULL, playing |-> {},
   mounted |-> Players, ev |-> "mount"]

\* useAudio.ts lines 13-21: audioManager.claim
claim(au, h) ==
  [au EXCEPT !.playing = IF au.current \notin {NULL, h}
                           THEN au.playing \ {au.current} ELSE au.playing,
             !.current = h]

\* useAudio.ts lines 22-24: audioManager.release
release(au, h) == [au EXCEPT !.current = IF au.current = h THEN NULL ELSE au.current]

\* el.pause()
elPause(au, h) == [au EXCEPT !.playing = au.playing \ {h}]

\* el.play(): the element starts unless its source is gone
elPlay(au, h) ==
  [au EXCEPT !.playing = IF h \in au.mounted THEN au.playing \cup {h} ELSE au.playing]

\* useAudio.ts lines 155-158: the continuation of play() after ctx.resume()
playAfterResume(au, h) == [elPlay(au, h) EXCEPT !.pc[h] = "start"]

\* useAudio.ts lines 146-158: play() up to its first await; suspended is the
\* state of the player's AudioContext
play(au, h, suspended) ==
  IF suspended THEN [claim(au, h) EXCEPT !.pc[h] = "resume"]
  ELSE [elPlay(claim(au, h), h) EXCEPT !.pc[h] = "start"]

\* useAudio.ts lines 185-194: pause()
pause(au, h) == release(elPause(au, h), h)

\* isPlaying of player h: the play and pause events of its element set it
\* (lines 71-72)
isPlaying(au, h) == h \in au.playing

AudioRest ==
  UNCHANGED << player, keys, activeZone, overlapRef, touch, stamina, hash,
               storage, hidden, loops, cur, rafQueue, frames, sinceVis,
               lastEvent, walk, mv, zoom, env, more, cm, ld, vl >>

Play(h) ==
  /\ h \in audio.mounted
  /\ audio.pc[h] = "idle"
  /\ \E suspended \in BOOLEAN :
       audio' = [play(audio, h, suspended) EXCEPT !.ev = "play"]
  /\ AudioRest

\* ctx.resume() of player h is settled
Resumed(h) ==
  /\ audio.pc[h] = "resume"
  /\ audio' = [playAfterResume(audio, h) EXCEPT !.ev = "resumed"]
  /\ AudioRest

\* the promise of el.play() is settled (lines 158-180)
Started(h) ==
  /\ audio.pc[h] = "start"
  /\ audio' = [audio EXCEPT !.pc[h] = "idle", !.ev = "started"]
  /\ AudioRest

Pause(h) ==
  /\ h \in audio.mounted
  /\ audio' = [pause(audio, h) EXCEPT !.ev = "pause"]
  /\ AudioRest

\* useAudio.ts lines 204-206: toggle()
Toggle(h) ==
  /\ h \in audio.mounted
  /\ IF isPlaying(audio, h)
       THEN audio' = [pause(audio, h) EXCEPT !.ev = "toggle"]
       ELSE /\ audio.pc[h] = "idle"
            /\ \E suspended \in BOOLEAN :
                 audio' = [play(audio, h, suspended) EXCEPT !.ev = "toggle"]
  /\ AudioRest

\* useAudio.ts lines 58-61: the track of player h reaches its end
Ended(h) ==
  /\ h \in audio.playing
  /\ audio' = [release(elPause(audio, h), h) EXCEPT !.ev = "ended"]
  /\ AudioRest

\* useAudio.ts lines 89-111: the cleanup of player h's effect
Unmount(h) ==
  /\ h \in audio.mounted
  /\ audio' = [release(elPause(audio, h), h) EXCEPT
                 !.mounted = audio.mounted \ {h}, !.ev = "unmount"]
  /\ AudioRest

\* the visitor opens the music zone again
Remount ==
  /\ audio.mounted = {}
  /\ \A h \in Players : audio.pc[h] = "idle"
  /\ audio' = [AudioMounted EXCEPT !.ev = "remount"]
  /\ AudioRest

InitAudio ==
  /\ Boot(NoSave, FALSE)
  /\ mv = MvIdle /\ MoreIdle
  /\ audio = AudioMounted
  /\ cm = CmIdle /\ ld = LdIdle /\ vl = VlIdle

NextAudio ==
  \/ \E h \in Players : Play(h)
  \/ \E h \in Players : Resumed(h)
  \/ \E h \in Players : Started(h)
  \/ \E h \in Players : Pause(h)
  \/ \E h \in Players : Toggle(h)
  \/ \E h \in Players : Ended(h)
  \/ \E h \in Players : Unmount(h)
  \/ Remount

SpecAudio == InitAudio /\ [][NextAudio]_vars

\* ------------------------------------------------- a localStorage that throws
\* SpecSave runs the game with a localStorage that works, that is full
\* (setItem throws) or that is blocked (every access throws).
StorageModes == {"none", "write", "all"}

SaveSaved == { NoSave, Stringify(PlayerAt(U(445), U(300)), NULL) }

SaveTyped == {"a", "escape"}

InitSave ==
  /\ \E raw \in SaveSaved, fails \in StorageModes :
       BootAt(raw, FALSE, "", "follow", MAX_VIEW, fails)
  /\ mv = MvIdle
  /\ SideIdle /\ MoreIdle

NextSave ==
  \/ Frame
  \/ Tick
  \/ onVis
  \/ \E k \in SaveTyped : down(k)
  \/ \E k \in SaveTyped : up(k)
  \/ Reload

SpecSave == InitSave /\ [][NextSave]_vars

\* ------------------------------------------------ the load effect on its own
\* SpecLoad runs the load effect (lines 359-373) once on what localStorage
\* may hold under "pf-save".  A JSON value is a record tagged with its type.
Undef == [t |-> "undefined"]
JNull == [t |-> "null"]
Num(n) == [t |-> "number", n |-> n]
Str(s) == [t |-> "string", s |-> s]
JArray == [t |-> "array"]
Obj2(x, y) == [t |-> "object", x |-> x, y |-> y]
Save(p, az) == [t |-> "object", player |-> p, activeZone |-> az]

\* what one coordinate of a stored player may be
LoadCoords == {Undef, JNull, Num(100), Num(300), Str("12")}

LoadPlayers ==
  {Undef, JNull, Num(7), Str("p")} \cup {Obj2(x, y) : x \in LoadCoords, y \in LoadCoords}

LoadZones == {Undef, JNull, Num(3), Str("about"), Str("blog")}

\* getItem's result: null, or a string that JSON.parse rejects, or one it
\* parses to a value
LoadRaws ==
  {[kind |-> "absent"], [kind |-> "empty"], [kind |-> "invalid"]}
    \cup {[kind |-> "json", value |-> v] : v \in {JNull, Num(5), Str("s"), JArray}}
    \cup {[kind |-> "json", value |-> Save(p, az)] : p \in LoadPlayers, az \in LoadZones}

\* JavaScript's truthiness of a parsed value
Truthy(v) ==
  /\ v.t \notin {"undefined", "null"}
  /\ v.t = "number" => v.n # 0
  /\ v.t = "string" => v.s # ""

\* save.player.x: a property of a primitive or of an array is undefined
Prop(v, f) == IF v.t = "object" /\ f \in DOMAIN v THEN v[f] ELSE Undef

\* the load effect: p and az are the player coordinates and the active zone
\* before it runs
loadEffect(raw, p, az) ==
  IF raw.kind # "json" THEN [player |-> p, activeZone |-> az]
  ELSE LET save == raw.value
       IN  IF ~(Truthy(save) /\ save.t \in {"object", "array"})
             THEN [player |-> p, activeZone |-> az]
           ELSE
             [player |->
                IF Truthy(Prop(save, "player"))
                   /\ Prop(Prop(save, "player"), "x").t = "number"
                  THEN [x |-> Prop(Prop(save, "player"), "x"),
                        y |-> Prop(Prop(save, "player"), "y")]
                  ELSE p,
              activeZone |->
                IF Truthy(Prop(save, "activeZone"))
                   /\ Prop(save, "activeZone").t = "string"
                   /\ Prop(save, "activeZone").s \in ZoneIds
                  THEN Prop(save, "activeZone").s
                  ELSE az]

LoadDefault == [x |-> Num(500), y |-> Num(500)]

LoadCalls ==
  {[pc |-> "call", raw |-> raw, out |-> [player |-> LoadDefault, activeZone |-> NULL]] :
     raw \in LoadRaws}

LoadApply ==
  /\ ld.pc = "call"
  /\ ld' = [ld EXCEPT !.pc = "ret", !.out = loadEffect(ld.raw, LoadDefault, NULL)]
  /\ UNCHANGED << player, keys, activeZone, overlapRef, touch, stamina, hash,
                  storage, hidden, loops, cur, rafQueue, frames, sinceVis,
                  lastEvent, walk, mv, zoom, env, more, audio, cm, vl >>

InitLoad ==
  /\ Boot(NoSave, FALSE)
  /\ mv = MvIdle /\ MoreIdle
  /\ audio = AudioIdle /\ cm = CmIdle /\ vl = VlIdle
  /\ ld \in LoadCalls

NextLoad == LoadApply

SpecLoad == InitLoad /\ [][NextLoad]_vars

\* ---------------------------------------------------- the velocity on its own
\* SpecVel computes the velocity of one step (lines 438-476) for the keys
\* held, the joystick and the stamina drawn from bounded sets.
VelKeys == {"w", "a", "s", "d", "arrowleft", "shift"}

\* the joystick after a pointerdown at PointerStart and a move to (x, y)
VelXs == {40, 95, 100, 130, 160}
VelYs == {60, 100, 103, 140}

VelTouches ==
  {TouchNone} \cup
  {onPointerMove(onPointerDown(TouchNone, Finger, PointerStart.x, PointerStart.y),
                 Finger, x, y) : x \in VelXs, y \in VelYs}

\* stamina below and above the sprint threshold of line 469, in thousandths
VelStaminas == {40, 1000}

Velocity(ks, t, stam) ==
  LET in    == Intent(ks, t)
      speed == MoveSpeed(ks, stam)
  IN  [vx |-> Axis(in.ix, in.iy, speed), vy |-> Axis(in.iy, in.ix, speed)]

VelCalls ==
  {[pc |-> "call", keys |-> ks, touch |-> t, stamina |-> st, vx |-> 0, vy |-> 0] :
     ks \in SUBSET VelKeys, t \in VelTouches, st \in VelStaminas}

VelApply ==
  /\ vl.pc = "call"
  /\ vl' = [vl EXCEPT !.pc = "ret",
                      !.vx = Velocity(vl.keys, vl.touch, vl.stamina).vx,
                      !.vy = Velocity(vl.keys, vl.touch, vl.stamina).vy]
  /\ UNCHANGED << player, keys, activeZone, overlapRef, touch, stamina, hash,
                  storage, hidden, loops, cur, rafQueue, frames, sinceVis,
                  lastEvent, walk, mv, zoom, env, more, audio, cm, ld >>

InitVel ==
  /\ Boot(NoSave, FALSE)
  /\ mv = MvIdle /\ MoreIdle
  /\ audio = AudioIdle /\ cm = CmIdle /\ ld = LdIdle
  /\ vl \in VelCalls

NextVel == VelApply

SpecVel == InitVel /\ [][NextVel]_vars

\* ------------------------------------------------------------ the zoom keys
ZOOM_MIN == 500                \* Math.max(0.5, ...), in thousandths
ZOOM_MAX == 1500               \* Math.min(1.5, ...)
ZOOM_STEP == 50                \* c.zoom - 0.05, c.zoom + 0.05

ZoomOutKeys == {"-", "_", "["}
ZoomInKeys == {"=", "+", "]"}
ZoomKeys == ZoomOutKeys \cup ZoomInKeys \cup {"0"}

\* +(z).toFixed(2): z rounded to hundredths
ToFixed2(z) == ((z + 5) \div 10) * 10

\* lines 393-404: the updater a zoom key passes to setCamera
onZoomKey(k, z) ==
  IF k \in ZoomOutKeys THEN Max(ZOOM_MIN, ToFixed2(z - ZOOM_STEP))
  ELSE IF k \in ZoomInKeys THEN Min(ZOOM_MAX, ToFixed2(z + ZOOM_STEP))
  ELSE ZOOM_RESET

\* keydown of a zoom key: setCamera installs a new camera object, which
\* re-runs the loop effect
ZoomKey(k) ==
  /\ ~hidden
  /\ zoom' = onZoomKey(k, zoom)
  /\ FreeIds(rafQueue, cur) # {}
  /\ \E e \in {Rerun(rafQueue, loops, cur,
                     Closure(player, keys, activeZone, stamina, zoom'))} :
       /\ loops' = e.loops
       /\ cur' = e.cur
       /\ rafQueue' = e.queue
  /\ lastEvent' = [ev |-> "zoom"]
  /\ walk' = WalkOther(walk)
  /\ UNCHANGED << player, keys, activeZone, overlapRef, touch, stamina, hash,
                  storage, hidden, frames, sinceVis, mv, env, more, side >>

\* SpecZoom runs either build, in a large and in a small window
Builds == {"follow", "fit"}
ZoomViews == {MAX_VIEW, [width |-> 640, height |-> 360]}

InitZoom ==
  /\ \E b \in Builds, vp \in ZoomViews, hid \in BOOLEAN :
       BootAt(NoSave, hid, "", b, vp, "none")
  /\ mv = MvIdle
  /\ SideIdle /\ MoreIdle

NextZoom ==
  \/ Frame
  \/ Tick
  \/ onVis
  \/ \E k \in ZoomKeys : ZoomKey(k)

SpecZoom == InitZoom /\ [][NextZoom]_vars

\* ------------------------------------------------ the soft-follow camera
\* SpecCam computes the camera of one step (lines 498-519) for a camera
\* position, a player rectangle and a viewport drawn from bounded sets.
\* Positions are in units, as the player's.

\* line 215: lerp(a, b, 0.12), cut to whole units
lerp(a, b) == a + Sgn(b - a) * ((Abs(b - a) * 12) \div 100)

\* a camera that keeps the player in the middle of the viewport
desiredCentred(c, target, size, world) ==
  Max(0, Min(world - size, target - size \div 2))

\* lines 504-513: where the camera wants to be on one axis; c is its current
\* position, target the player's centre, size the viewport's extent and
\* world the world's
desired(c, target, size, world) ==
  LET margin == (size * 3) \div 10
      d1 == IF target - c < margin THEN Max(0, target - margin) ELSE c
  IN  IF target - c > size - margin
        THEN Min(world - size, target - (size - margin))
        ELSE d1

\* lines 498-519: the camera step commits
follow(cam, next, vp) ==
  [x |-> lerp(cam.x, desired(cam.x, next.x + next.w \div 2, U(vp.width), U(WORLD.width))),
   y |-> lerp(cam.y, desired(cam.y, next.y + next.h \div 2, U(vp.height), U(WORLD.height)))]

CamXs == {U(0), U(100), U(500)}
CamYs == {U(0), U(200)}
CamPlayerXs == {U(0), U(274), U(300), U(500), U(658), U(700), U(1000), U(1950)}
CamPlayerYs == {U(0), U(148), U(300), U(364), U(600), U(1165)}

CamCalls ==
  {[pc |-> "call", cam |-> [x |-> cx, y |-> cy], next |-> PlayerAt(px, py),
    vp |-> vp, out |-> [x |-> cx, y |-> cy]] :
     cx \in CamXs, cy \in CamYs, px \in CamPlayerXs, py \in CamPlayerYs,
     vp \in ZoomViews}

CamApply ==
  /\ cm.pc = "call"
  /\ cm' = [cm EXCEPT !.pc = "ret", !.out = follow(cm.cam, cm.next, cm.vp)]
  /\ UNCHANGED << player, keys, activeZone, overlapRef, touch, stamina, hash,
                  storage, hidden, loops, cur, rafQueue, frames, sinceVis,
                  lastEvent, walk, mv, zoom, env, more, audio, ld, vl >>

InitCam ==
  /\ Boot(NoSave, FALSE)
  /\ mv = MvIdle /\ MoreIdle
  /\ audio = AudioIdle /\ ld = LdIdle /\ vl = VlIdle
  /\ cm \in CamCalls

NextCam == CamApply

SpecCam == InitCam /\ [][NextCam]_vars

\* ------------------------------------------------- walking at the plaza walls
\* SpecWall walks the player for MaxWalk frames from places next to the walls
\* of the plaza, outside it: each frame takes the velocity of the keys held
\* (lines 438-476), the dt of line 435 for the real time since the frame
\* before, and commits resolve's rectangle (lines 486-493).
MaxWalk == 3

\* the free tiles the plaza walls enclose (lines 154-180)
PlazaInside ==
  [x |-> (xL + 1) * U(TILE), y |-> (yTop + 1) * U(TILE),
   w |-> (xR - xL - 1) * U(TILE), h |-> (yBot - yTop - 1) * U(TILE)]

WallStarts ==
  { PlayerAt(U(842), U(500)),        \* west of the west post
    PlayerAt(U(1170), U(610)),       \* east of the south-east corner
    PlayerAt(U(845) + 1, U(365)) }   \* north-west of the north-west corner

WallKeys == SUBSET MoveKeys
WallMoves == {Velocity(ks, TouchNone, 1000) : ks \in WallKeys}
WallElapsed == {16, 1000}

WallFrame(v, ms) ==
  /\ mv.pc = "walk"
  /\ mv.n < MaxWalk
  /\ mv' = [pc |-> "walk", n |-> mv.n + 1,
            r |-> resolve(mv.r, v.vx, v.vy, capDt(ms)),
            vx |-> v.vx, vy |-> v.vy, ms |-> ms, dt |-> capDt(ms)]
  /\ UNCHANGED << player, keys, activeZone, overlapRef, touch, stamina, hash,
                  storage, hidden, loops, cur, rafQueue, frames, sinceVis,
                  lastEvent, walk, zoom, env, more, side >>

InitWall ==
  /\ Boot(NoSave, FALSE)
  /\ SideIdle /\ MoreIdle
  /\ mv \in {[pc |-> "walk", n |-> 0, r |-> r, vx |-> 0, vy |-> 0,
              ms |-> 0, dt |-> 0] : r \in WallStarts}

NextWall == \E v \in WallMoves, ms \in WallElapsed : WallFrame(v, ms)

SpecWall == InitWall /\ [][NextWall]_vars

\* ------------------------------------------ the camera over frames and resizes
\* SpecFollow runs the camera lines of step frame after frame for a player
\* standing where the snapshot restored it, from the camera of the mount, and
\* lets the window change size in between.  The other specifications keep
\* the window as it is; here cm.vp is the viewport state (line 307 sets it)
\* and cm.seen the viewport the pending frame callback closed over.
FollowStart ==
  {[pc |-> "follow", cam |-> [x |-> 0, y |-> 0], next |-> PlayerAt(px, py),
    vp |-> vp, seen |-> vp] :
     px \in {U(500), U(1950)}, py \in {U(300), U(1165)}, vp \in ZoomViews}

\* lines 498-519, then the loop effect re-run with the rendered viewport
FollowFrame ==
  /\ cm.pc = "follow"
  /\ cm' = [cm EXCEPT !.cam = follow(cm.cam, cm.next, cm.seen), !.seen = cm.vp]
  /\ UNCHANGED << player, keys, activeZone, overlapRef, touch, stamina, hash,
                  storage, hidden, loops, cur, rafQueue, frames, sinceVis,
                  lastEvent, walk, mv, zoom, env, more, audio, ld, vl >>

\* lines 307-319: the resize listener sets the viewport computeViewport gives
\* for the new window; nothing else is touched
onResize(c, vp) == [c EXCEPT !.vp = vp]

Resize(vp) ==
  /\ cm.pc = "follow"
  /\ vp # cm.vp
  /\ cm' = onResize(cm, vp)
  /\ UNCHANGED << player, keys, activeZone, overlapRef, touch, stamina, hash,
                  storage, hidden, loops, cur, rafQueue, frames, sinceVis,
                  lastEvent, walk, mv, zoom, env, more, audio, ld, vl >>

InitFollow ==
  /\ Boot(NoSave, FALSE)
  /\ mv = MvIdle /\ MoreIdle
  /\ audio = AudioIdle /\ ld = LdIdle /\ vl = VlIdle
  /\ cm \in FollowStart

NextFollow ==
  \/ FollowFrame
  \/ \E vp \in ZoomViews : Resize(vp)

SpecFollow == InitFollow /\ [][NextFollow]_vars

\* ------------------------------------------------------------ the Enter key
\* SpecEnter is the page of SpecHash without its links, with the Enter key
\* recorded: the modal that was open and the frames run before the key.
Enter ==
  keydown("enter", [ev |-> "enter", was |-> activeZone, frames |-> frames])

InitEnter == InitHash

NextEnter ==
  \/ Frame
  \/ Tick
  \/ \E k \in {"a", "escape"} : down(k)
  \/ \E k \in {"a"} : up(k)
  \/ Enter

SpecEnter == InitEnter /\ [][NextEnter]_vars

\* ------------------------------------------------- the mount, step by step
\* SpecBoot starts where the effects of the mount have run and React has not
\* yet rendered the updates they queued: the hash effect's setActiveZone
\* (lines 334-346) and the load effect's setPlayer and setActiveZone (lines
\* 359-373).  The loop effect (lines 421-432, 748-755) has run once, over
\* the state of the first render, and its frame callback is in the browser's
\* list.  React may render the queued updates before the next animation
\* frame or let the browser run the frame first.
BootStart(raw, h) ==
  /\ storage = raw
  /\ hash = h
  /\ hidden = FALSE
  /\ build = "follow"
  /\ viewport = MAX_VIEW
  /\ storageFails = "none"
  /\ zoom = ZOOM_RESET
  /\ player = Spawn
  /\ activeZone = NULL
  /\ keys = {}
  /\ overlapRef = NULL
  /\ touch = TouchNone
  /\ stamina = 1000
  /\ loops = MountLoops([player |-> Spawn, activeZone |-> NULL])
  /\ cur = 0
  /\ rafQueue = << [inst |-> 0, latest |-> TRUE] >>
  /\ frames = 0
  /\ sinceVis = -1
  /\ lastEvent = [ev |-> "mount"]
  /\ walk = "idle"
  /\ boot = [pc |-> "mounting", raw |-> raw, queued |-> MountedFrom(raw, h, FALSE)]

\* React renders the queued updates; setPlayer, called when a snapshot was
\* found, installs a new player object, which re-runs the loop effect
Render ==
  /\ boot.pc = "mounting"
  /\ player' = boot.queued.player
  /\ activeZone' = boot.queued.activeZone
  /\ \E e \in {IF boot.raw # NoSave
                 THEN Rerun(rafQueue, loops, cur,
                            Closure(boot.queued.player, keys, boot.queued.activeZone,
                                    stamina, zoom))
                 ELSE [loops |-> loops, cur |-> cur, queue |-> rafQueue]} :
       /\ loops' = e.loops
       /\ cur' = e.cur
       /\ rafQueue' = e.queue
  /\ boot' = [boot EXCEPT !.pc = "rendered"]
  /\ lastEvent' = [ev |-> "load"]
  /\ UNCHANGED << keys, overlapRef, touch, stamina, hash, storage, hidden, frames,
                  sinceVis, walk, mv, zoom, env, sp, side >>

\* The animation frame comes first: the callback of the first run steps from
\* the state of the first render and queues setPlayer(next) behind the load
\* effect's update, so the render that follows installs next; activeZone is
\* the trigger's zone if it opened one, else what the mount queued.
EarlyFrame ==
  /\ boot.pc = "mounting"
  /\ ~hidden
  /\ rafQueue # << >>
  /\ frames < MaxFrames
  /\ \E r \in {RunCallbacks(rafQueue, FrameAcc(storageFails # "none"))} :
       \E z \in {IF r.opens # << >> THEN r.zone ELSE boot.queued.activeZone} :
         /\ \E e \in {Rerun(r.queue, r.loops, cur,
                            Closure(r.player, keys, z, r.stam, r.zoom))} :
              /\ loops' = e.loops
              /\ cur' = e.cur
              /\ rafQueue' = e.queue
         /\ player' = r.player
         /\ zoom' = r.zoom
         /\ activeZone' = z
         /\ stamina' = r.stam
         /\ storage' = r.storage
         /\ overlapRef' = r.overlap
  /\ frames' = frames + 1
  /\ boot' = [boot EXCEPT !.pc = "rendered"]
  /\ lastEvent' = [ev |-> "earlyframe"]
  /\ UNCHANGED << keys, touch, hash, hidden, sinceVis, walk, mv, env, sp, side >>

InitBoot ==
  /\ \E raw \in SavedStates \cup {NoSave}, h \in Hashes : BootStart(raw, h)
  /\ mv = MvIdle
  /\ SideIdle
  /\ sp = SpIdle

NextBoot ==
  \/ Render
  \/ EarlyFrame
  \/ Tick
  \/ boot.pc = "rendered" /\ Frame
  \/ boot.pc = "rendered" /\ onVis

SpecBoot == InitBoot /\ [][NextBoot]_vars

\* ------------------------------------------------------------- properties
\* the tile columns and rows a rectangle has positive-area overlap with
ColSpan(r) == (r.x \div U(TILE))..((r.x + r.w - 1) \div U(TILE))
RowSpan(r) == (r.y \div U(TILE))..((r.y + r.h - 1) \div U(TILE))

OverlapsSolid(r) == \E tx \in ColSpan(r), ty \in RowSpan(r) : isSolid(tx, ty)

SetMin(S) == CHOOSE a \in S : \A b \in S : a <= b
SetMax(S) == CHOOSE a \in S : \A b \in S : a >= b

\* C1: after every frame the committed player rectangle has no positive-area
\* overlap with a solid tile, whatever the inputs, the frame times and the
\* (sub-pixel) positions, from the spawn or from a restored position.
C1_NoSolidOverlap == lastEvent.ev = "frame" => ~OverlapsSolid(player)

\* C2: the rectangle a frame commits (moveAndCollide, then the clamp of step)
\* lies in the world: 0 <= x <= WORLD.width - w and 0 <= y <= WORLD.height - h,
\* for every previous position, velocity and dt.
C2_InWorld ==
  mv.pc = "ret" =>
    /\ 0 <= mv.out.x /\ mv.out.x <= U(WORLD.width) - mv.out.w
    /\ 0 <= mv.out.y /\ mv.out.y <= U(WORLD.height) - mv.out.h

\* a call in which the clamp of step had to act: moveAndCollide snapped the
\* rectangle against column 0 and left it outside the world
C2_Clamped == mv.pc = "ret" /\ mv.raw.x < 0 /\ mv.out.x = 0

\* the solid columns whose left edge the right edge of r meets when r moves
\* right by d, and those whose right edge its left edge meets moving left
AheadRight(r, d) ==
  {c \in 0..(COLS - 1) :
     /\ c * U(TILE) >= r.x + r.w
     /\ c * U(TILE) < r.x + r.w + d
     /\ \E ty \in RowSpan(r) : isSolid(c, ty)}
AheadLeft(r, d) ==
  {c \in 0..(COLS - 1) :
     /\ (c + 1) * U(TILE) <= r.x
     /\ (c + 1) * U(TILE) > r.x - d
     /\ \E ty \in RowSpan(r) : isSolid(c, ty)}
AheadDown(r, d) ==
  {t \in 0..(ROWS - 1) :
     /\ t * U(TILE) >= r.y + r.h
     /\ t * U(TILE) < r.y + r.h + d
     /\ \E tx \in ColSpan(r) : isSolid(tx, t)}
AheadUp(r, d) ==
  {t \in 0..(ROWS - 1) :
     /\ (t + 1) * U(TILE) <= r.y
     /\ (t + 1) * U(TILE) > r.y - d
     /\ \E tx \in ColSpan(r) : isSolid(tx, t)}

\* C3: when the displacement along an axis would carry the rectangle into a
\* solid tile, moveAndCollide stops it at the first solid tile boundary in
\* the direction of travel on that axis, the leading edge exactly on the
\* boundary (the Y axis from the rectangle the X step produced).  Stated
\* for rectangles that start in free space.
C3_StopsAtFirstSolid ==
  (mv.pc = "ret" /\ ~OverlapsSolid(mv.r)) =>
    LET dx == Displace(mv.vx, mv.dt)
        dy == Displace(mv.vy, mv.dt)
        rx == [mv.r EXCEPT !.x = mv.raw.x]
    IN  /\ (dx > 0 /\ AheadRight(mv.r, dx) # {}) =>
             mv.raw.x = SetMin(AheadRight(mv.r, dx)) * U(TILE) - mv.r.w
        /\ (dx < 0 /\ AheadLeft(mv.r, -dx) # {}) =>
             mv.raw.x = (SetMax(AheadLeft(mv.r, -dx)) + 1) * U(TILE)
        /\ (dy > 0 /\ AheadDown(rx, dy) # {}) =>
             mv.raw.y = SetMin(AheadDown(rx, dy)) * U(TILE) - mv.r.h
        /\ (dy < 0 /\ AheadUp(rx, -dy) # {}) =>
             mv.raw.y = (SetMax(AheadUp(rx, -dy)) + 1) * U(TILE)

\* C4: the 28x28 rectangle at (0,0) moved with vx = 100, vy = 0, dt = 1 s
\* towards the solid tile whose left edge is at x = 40 ends at x = 12, y = 0.
C4_Example ==
  (/\ mv.pc = "ret" /\ mv.r = PlayerAt(U(0), U(0))
   /\ mv.vx = 100 /\ mv.vy = 0 /\ mv.dt = 1000)
    => mv.raw.x = U(12) /\ mv.raw.y = U(0)

\* C5: zone opening is edge-triggered: a frame that takes the player from
\* overlapping no zone to overlapping zone Z issues exactly one open event,
\* for Z, and a frame in which the player stays in its zone issues none.
C5_EdgeTriggered ==
  lastEvent.ev = "frame" =>
    /\ (lastEvent.wasZone = NULL /\ ZoneAt(player) # NULL) =>
          lastEvent.opens = << ZoneAt(player) >>
    /\ (lastEvent.wasZone # NULL /\ ZoneAt(player) = lastEvent.wasZone) =>
          lastEvent.opens = << >>

\* C6: Escape, the close button and a backdrop click each leave no zone
\* active, also while the player overlaps the zone, and the modal stays
\* closed for as long as the player stays in that zone and does not press
\* Enter.
C6_ManualClose ==
  /\ lastEvent.ev \in {"escape", "closebutton", "backdrop"} => activeZone = NULL
  /\ walk = "closed" => (activeZone = NULL /\ ZoneAt(player) # NULL)

\* C7: after a manual close, a player who walks out of the zone (a frame
\* with no overlap) and back in has the zone's modal opened again.
C7_ReentryReopens ==
  walk = "back" => (activeZone # NULL /\ activeZone = ZoneAt(player))

\* the modal is open again after close, walk out and walk in
C7_Reopened == walk = "back" /\ lastEvent.ev = "frame" /\ activeZone \in ZoneIds

\* C8: at most one frame callback of the loop is pending at any time and at
\* most one step executes (and commits) per animation frame.
C8_SingleCallback ==
  /\ Len(rafQueue) <= 1
  /\ lastEvent.ev = "frame" => lastEvent.steps = 1

\* C9: no step runs while the page is hidden, and the first step after the
\* page is shown again takes its dt from the moment of the return: it counts
\* no more time than has passed since then.
C9_DtFromReturn ==
  lastEvent.ev = "frame" =>
    /\ ~hidden
    /\ lastEvent.visAge >= 0 => lastEvent.dt1 <= lastEvent.visAge

\* C10: every frame overwrites the snapshot, and what the next startup
\* restores (player x, y and active zone) is the player position and the
\* active zone that were current when the last frame completed.
C10_RoundTrip ==
  /\ lastEvent.ev = "frame" => storage.player = Stringify(player, NULL).player
  /\ (lastEvent.ev = "reload" /\ lastEvent.afterFrame) =>
        Stringify(player, activeZone) = lastEvent.before

\* C11: in every reachable state the URL fragment mirrors the open modal:
\* the modal of a zone is open exactly when the fragment is that zone's id,
\* however the modal was opened or closed.
C11_HashMirrorsModal ==
  \A z \in ZoneIds : (activeZone = z) <=> (hash = z)

\* C12: after startup and after a hashchange, no modal is open when the
\* fragment is absent or names no zone, whatever the snapshot holds; when the
\* fragment names a zone at startup, that zone's modal and no other is open.
C12_HashDecidesModal ==
  lastEvent.ev \in {"load", "reload", "hashchange"} =>
    activeZone = (IF hash \in ZoneIds THEN hash ELSE NULL)

\* C19: once the loop effect is torn down its step never runs again: every
\* frame callback it scheduled has run or is cancelled, so each pending
\* callback belongs to the instance that is mounted now.
C19_TeardownComplete ==
  \A i \in 1..Len(rafQueue) : rafQueue[i].inst = cur

\* C20: the joystick has at most one owning pointer.  A pointer-down while
\* another pointer owns it, and a move or an up of a pointer that does not
\* own it, leave the owner, the start point and the offset as they were.
C20_SingleOwner ==
  lastEvent.ev = "pointer" =>
    /\ (lastEvent.kind = "down" /\ lastEvent.before.id \notin {NULL, lastEvent.p})
          => touch = lastEvent.before
    /\ (lastEvent.kind \in {"move", "up"} /\ lastEvent.before.id # lastEvent.p)
          => touch = lastEvent.before

\* a second pointer went down while the first held the stick off centre
C20_SecondPointerDown ==
  /\ lastEvent.ev = "pointer"
  /\ lastEvent.kind = "down"
  /\ lastEvent.before.id \notin {NULL, lastEvent.p}
  /\ lastEvent.before.dx # 0

\* C13: at most one audio element is playing at any time, whatever the order
\* of play, pause, toggle, 'ended' and unmount, also when a second play()
\* starts while the first awaits its context or its play promise; and an
\* element that plays is the manager's current owner.
C13_OnePlaying ==
  /\ Cardinality(audio.playing) <= 1
  /\ \A h \in audio.playing : audio.current = h

\* C14: a localStorage that throws is swallowed.  A frame whose write fails
\* commits the player and the camera, runs the zone trigger and schedules the
\* next frame exactly as the frame with a successful write does, and leaves
\* the stored snapshot alone; a startup whose read fails leaves the default
\* state with the loop running.
C14_StorageFailureSwallowed ==
  /\ [](storageFails = "all" /\ lastEvent.ev \in {"load", "reload"} =>
          /\ player = Spawn
          /\ activeZone = NULL
          /\ rafQueue = << [inst |-> cur, latest |-> TRUE] >>)
  /\ [][(storageFails # "none" /\ frames' = frames + 1) =>
          \E ok \in {RunCallbacks(rafQueue, FrameAcc(FALSE))} :
            /\ player' = ok.player
            /\ zoom' = ok.zoom
            /\ activeZone' = ok.zone
            /\ overlapRef' = ok.overlap
            /\ rafQueue' = AfterFrame(ok).queue
            /\ storage' = storage]_vars

\* a frame has moved the player into "about" and opened its modal while
\* localStorage could not be written
C14_FrameWithoutStorage ==
  /\ storageFails # "none"
  /\ lastEvent.ev = "frame"
  /\ lastEvent.opens = << "about" >>
  /\ player # Spawn

\* the stored player has numeric x and y; the stored zone is a known id
LoadPlayerOk(raw) ==
  /\ raw.kind = "json"
  /\ Prop(Prop(raw.value, "player"), "x").t = "number"
  /\ Prop(Prop(raw.value, "player"), "y").t = "number"

LoadZoneOk(raw) ==
  /\ raw.kind = "json"
  /\ Prop(raw.value, "activeZone").t = "string"
  /\ Prop(raw.value, "activeZone").s \in ZoneIds

\* C15: a malformed snapshot is discarded.  When the stored text is not
\* JSON or not an object, when the player's x or y is not a number, or when
\* the active zone is unknown, that part is not applied: the player keeps
\* numeric coordinates and no modal is opened.
C15_MalformedDiscarded ==
  ld.pc = "ret" =>
    /\ ld.out.player.x.t = "number" /\ ld.out.player.y.t = "number"
    /\ ~LoadPlayerOk(ld.raw) => ld.out.player = LoadDefault
    /\ ~LoadZoneOk(ld.raw) => ld.out.activeZone = NULL

\* C16: for every combination of held keys and joystick offset the velocity
\* is no longer than the configured speed, PLAYER.speed or 1.8 times it with
\* shift held, also when the keyboard and the joystick push the same way; it
\* is always defined, and inputs that cancel give zero.
C16_SpeedBounded ==
  vl.pc = "ret" =>
    LET cap == IF "shift" \in vl.keys THEN (PLAYER.speed * 18) \div 10 ELSE PLAYER.speed
        in  == Intent(vl.keys, vl.touch)
    IN  /\ vl.vx \in Int /\ vl.vy \in Int
        /\ vl.vx * vl.vx + vl.vy * vl.vy <= cap * cap
        /\ (in.ix = 0 /\ in.iy = 0) => (vl.vx = 0 /\ vl.vy = 0)

\* the key "d" and the joystick both push right, at walking speed
C16_KeyAndStickRight ==
  /\ vl.pc = "ret"
  /\ "d" \in vl.keys /\ "shift" \notin vl.keys
  /\ vl.touch.dx > JOY_DEAD /\ vl.touch.dy = 0
  /\ vl.vx = PLAYER.speed /\ vl.vy = 0

\* C17: camera.zoom is between 0.5 and 1.5 in every reachable state and only
\* the zoom keys change it: no frame commit changes it, so a change made by a
\* key is never overwritten by a commit computed from the earlier camera.
C17_ZoomByKeysOnly ==
  /\ [](zoom \in ZOOM_MIN..ZOOM_MAX)
  /\ [][frames' = frames + 1 => zoom' = zoom]_vars

\* the player's centre is between 0.3 and 0.7 of the viewport, on both axes
InMargin(c) ==
  LET ox == c.next.x + c.next.w \div 2 - c.cam.x
      oy == c.next.y + c.next.h \div 2 - c.cam.y
  IN  /\ 3 * U(c.vp.width) <= 10 * ox /\ 10 * ox <= 7 * U(c.vp.width)
      /\ 3 * U(c.vp.height) <= 10 * oy /\ 10 * oy <= 7 * U(c.vp.height)

\* C18: the soft-follow camera stays where it is while the player is inside
\* the margin: when the offset of the player's centre from the camera is
\* between 0.3 and 0.7 of the viewport on both axes, the committed camera
\* position equals the previous one exactly.
C18_CameraRestsInMargin ==
  (cm.pc = "ret" /\ InMargin(cm)) => cm.out = cm.cam

\* a scrolled camera with the player inside the margin, off its centre
C18_InsideMargin ==
  /\ cm.pc = "ret"
  /\ InMargin(cm)
  /\ cm.cam.x > 0 /\ cm.cam.y > 0
  /\ 2 * (cm.next.x + cm.next.w \div 2 - cm.cam.x) # U(cm.vp.width)

\* C22: within a frame the zone trigger is checked before the state is
\* committed and the snapshot is written, so the snapshot a frame writes
\* reflects the result of that frame's zone trigger: after a frame whose
\* trigger opened a zone, the stored activeZone is the zone now open.
C22_SnapshotAfterTrigger ==
  (lastEvent.ev = "frame" /\ lastEvent.steps = 1 /\ lastEvent.opens # << >>)
    => storage.activeZone = activeZone

\* C30: a nav link always opens its modal: whenever the visitor selects the
\* link of zone z, also after the modal opened through that link was closed
\* by Escape, the close button or the backdrop, the modal of z is open.
C30_LinkOpensModal ==
  [][\A z \in ZoneIds : NavLink(z) => activeZone' = z]_vars

\* C28: the joystick is active only while its owning pointer is down: every
\* way the owning pointer can end, pointer-up or pointer-cancel, resets the
\* joystick, so that it adds no intent and a new pointer can take it.
C28_PointerEndResets ==
  (/\ lastEvent.ev = "pointer"
   /\ lastEvent.kind \in {"up", "cancel"}
   /\ lastEvent.before.id = lastEvent.p)
    => touch = TouchNone

\* C24: a diagonal move is resolved on X first and then on Y against the
\* rectangle X left: moveAndCollide(r, vx, vy, dt) equals resolving (vx, 0)
\* from r and then (0, vy) from that result.
C24_XThenY ==
  mv.pc = "ret" =>
    mv.raw = moveAndCollide(moveAndCollide(mv.r, mv.vx, 0, mv.dt),
                            0, mv.vy, mv.dt)

\* the tile rows the rectangle covers are all outside the grid
RowsOutside(r) ==
  LET rng == rectToTileRange(r.x, r.y, r.w, r.h)
  IN  rng.bottom < 0 \/ rng.top >= ROWS

\* C25: the tile lookup is bounds-checked: isSolid(tx, ty) is false for every
\* index outside the grid, so a rectangle whose leading edge lies outside the
\* grid is stopped only by the clamp to the world, never by a tile.
C25_OutsideGridNotSolid ==
  /\ \A tx \in -2..(COLS + 1), ty \in -2..(ROWS + 1) :
       (tx < 0 \/ tx >= COLS \/ ty < 0 \/ ty >= ROWS) => ~isSolid(tx, ty)
  /\ (mv.pc = "ret" /\ RowsOutside(mv.r)) =>
       mv.raw.x = clampToWorldX(mv.r.x + Displace(mv.vx, mv.dt), mv.r.w)

\* a rectangle above the grid has moved left into the column of the border
\* wall, where a rectangle inside the grid is stopped by the wall's tiles
C25_IntoBorderColumn ==
  /\ mv.pc = "ret"
  /\ RowsOutside(mv.r)
  /\ mv.vx < 0
  /\ mv.raw.x < U(TILE)
  /\ mv.raw.x # mv.r.x

C26_NoTunnelling ==
  mv.pc = "walk" =>
    /\ mv.dt <= DT_CAP
    /\ Abs(Displace(mv.vx, mv.dt)) < U(TILE)
    /\ Abs(Displace(mv.vy, mv.dt)) < U(TILE)
    /\ ~intersects(mv.r, PlazaInside)

\* a sprint to the east after a second without a frame has ended flush with
\* the west post of the plaza
C26_StoppedAtPost ==
  /\ mv.pc = "walk"
  /\ mv.ms > DT_CAP
  /\ mv.vx = (PLAYER.speed * 18) \div 10
  /\ mv.r.x + mv.r.w = xL * U(TILE)
  /\ mv.r.y > yTop * U(TILE) /\ mv.r.y < yBot * U(TILE)

\* C27: the soft-follow camera stays inside the world in every reachable
\* state: 0 <= camera.x <= WORLD.width - viewport.width and 0 <= camera.y <=
\* WORLD.height - viewport.height, after any frames, moves and resizes.
C27_CameraInWorld ==
  cm.pc = "follow" =>
    /\ 0 <= cm.cam.x /\ cm.cam.x <= U(WORLD.width - cm.vp.width)
    /\ 0 <= cm.cam.y /\ cm.cam.y <= U(WORLD.height - cm.vp.height)

\* C23: pressing Enter opens zone Z exactly when the player's rectangle, as
\* of the most recently completed frame, overlaps Z; pressing Enter while it
\* overlaps no zone leaves the active zone as it was.
C23_EnterOpensOverlapped ==
  (lastEvent.ev = "enter" /\ lastEvent.frames > 0) =>
    activeZone = IF ZoneAt(player) # NULL THEN ZoneAt(player) ELSE lastEvent.was

\* Enter has opened the modal of the zone the player stands in
C23_OpenedByEnter ==
  /\ lastEvent.ev = "enter" /\ lastEvent.frames > 0
  /\ lastEvent.was = NULL
  /\ activeZone # NULL /\ activeZone = ZoneAt(player)

\* C29: at startup the saved snapshot is read and applied before any frame
\* writes the snapshot: no step computed from the default spawn position
\* overwrites a valid saved position before that position has been restored.
\* No key is held during the mount, so the snapshot keeps the saved position
\* and the player stands on it once the mount has rendered.
C29_RestoredBeforeSaved ==
  boot.raw # NoSave =>
    /\ storage.player = boot.raw.player
    /\ boot.pc = "rendered" =>
         (player.x = boot.raw.player.x /\ player.y = boot.raw.player.y)

====
